---- MODULE Spec2Model ----
(***************************************************************************)
(* Gauss-Seidel solver of the OBR macroeconomic model (src/solver.py),     *)
(* with the equations of the registry that the solver's cost-block         *)
(* pre-solver and additive-adjustment post-processor are about.            *)
(*                                                                         *)
(* Floats are modelled as fixed-point integers in units of 1/Scale, plus   *)
(* the IEEE special values NaN, +inf and -inf.  Every arithmetic operator  *)
(* rounds to the nearest unit, as a float operation rounds to the nearest  *)
(* representable value.                                                    *)
(***************************************************************************)
EXTENDS Integers, Sequences, FiniteSets, TLC

(***************************************************************************)
(* Bounds of the model.                                                    *)
(***************************************************************************)
\* fixed-point resolution: the value 1.0 is Scale units
Scale == 100
\* rows of the store are the periods 0..MaxPeriod; row 0 is the run-up history
MaxPeriod == 2
\* largest max_iter a solver is constructed with
MaxIter == 3

(***************************************************************************)
(* Float values.                                                           *)
(***************************************************************************)
NaN == 1000000000
PosInf == 900000000
NegInf == -PosInf

IsNaN(x) == x = NaN
IsInf(x) == x = PosInf \/ x = NegInf

Abs(x) == IF x < 0 THEN -x ELSE x
Sign(x) == IF x < 0 THEN -1 ELSE IF x > 0 THEN 1 ELSE 0
InfOfSign(s) == IF s < 0 THEN NegInf ELSE PosInf

\* n / d rounded to the nearest integer, d /= 0
DivRound(n, d) ==
    LET an == Abs(n)
        ad == Abs(d)
        q  == (2 * an + ad) \div (2 * ad)
    IN  IF Sign(n) * Sign(d) < 0 THEN -q ELSE q

FNeg(a) == IF IsNaN(a) THEN NaN ELSE -a

FAdd(a, b) ==
    IF IsNaN(a) \/ IsNaN(b) THEN NaN
    ELSE IF IsInf(a) /\ IsInf(b) THEN (IF a = b THEN a ELSE NaN)
    ELSE IF IsInf(a) THEN a
    ELSE IF IsInf(b) THEN b
    ELSE a + b

FSub(a, b) == FAdd(a, FNeg(b))

FMul(a, b) ==
    IF IsNaN(a) \/ IsNaN(b) THEN NaN
    ELSE IF IsInf(a) \/ IsInf(b)
         THEN (IF a = 0 \/ b = 0 THEN NaN ELSE InfOfSign(Sign(a) * Sign(b)))
    ELSE DivRound(a * b, Scale)

\* numpy float64 division: x/0 is +-inf, 0/0 is NaN, nothing is raised
FDiv(a, b) ==
    IF IsNaN(a) \/ IsNaN(b) THEN NaN
    ELSE IF IsInf(a) /\ IsInf(b) THEN NaN
    ELSE IF IsInf(a) THEN InfOfSign(Sign(a) * (IF b < 0 THEN -1 ELSE 1))
    ELSE IF IsInf(b) THEN 0
    ELSE IF b = 0 THEN (IF a = 0 THEN NaN ELSE InfOfSign(Sign(a)))
    ELSE DivRound(a * Scale, b)

FAbs(a) == IF IsNaN(a) THEN NaN ELSE IF IsInf(a) THEN PosInf ELSE Abs(a)

\* a > b and a < b on floats: every comparison with NaN is false
FGt(a, b) == ~IsNaN(a) /\ ~IsNaN(b) /\ a > b
FLt(a, b) == ~IsNaN(a) /\ ~IsNaN(b) /\ a < b

\* the float nearest to the decimal literal units/100
Lit(hundredths) == DivRound(hundredths * Scale, 100)

(***************************************************************************)
(* Time-series store: data[p][c] is the cell of column c at period p.      *)
(* The columns of the store are the domain of its rows.                    *)
(***************************************************************************)
Periods == 0..MaxPeriod
Columns(d) == DOMAIN d[0]

\* data[name] = np.nan for a new column
AddColumn(d, name) ==
    [p \in DOMAIN d |->
        [c \in Columns(d) \cup {name} |-> IF c = name THEN NaN ELSE d[p][c]]]

\* variant: the assignment goes to the whole column, data[name] = val
SetCell_WholeColumn(d, tt, name, val) ==
    LET e == IF name \in Columns(d) THEN d ELSE AddColumn(d, name)
    IN  [p \in DOMAIN e |-> [e[p] EXCEPT ![name] = val]]

\* data.at[tt, name] = val; .at enlarges the frame when the column is new
SetCell(d, tt, name, val) ==
    LET e == IF name \in Columns(d) THEN d ELSE AddColumn(d, name)
    IN  [e EXCEPT ![tt][name] = val]

\* the lag accessor every equation body defines
v(d, tt, var, lag) == IF lag > 0 THEN d[tt - lag][var] ELSE d[tt][var]

\* The store has MaxPeriod + 1 rows; the quarters 2009Q1 to 2009Q4, which the
\* base-value equations read by date, fall in its row BasePeriod.
BasePeriod == 1

\* elem(data, variable, date_str): the value at a fixed date
elem(d, variable, period) == d[period][variable]

(***************************************************************************)
(* Equations of the registry (src/equations).  An evaluation either raises *)
(* (KeyError on a column or a row the store does not have) or yields a     *)
(* float.                                                                  *)
(***************************************************************************)
CostInputs ==
    {"ULCMS", "ULCMSBASE", "PMNOG", "PMNOGBASE", "PMS", "PMSBASE", "PBRENT",
     "RXD", "OILBASE", "BPAPS", "GVA", "TXRATEBASE", "PPIY", "PPIYBASE"}

\* the columns an equation body reads
Reads(name) ==
    CASE name = "SCOST"   -> CostInputs \cup {"CCOST", "UTCOST"}
      [] name = "CCOST"   -> CostInputs \cup {"SCOST", "UTCOST"}
      [] name = "UTCOST"  -> CostInputs \cup {"SCOST", "CCOST"}
      [] name = "PRMIP"   -> {"PRMIP", "RMORT", "LHP", "HH", "PRMIP_A"}
      [] name = "MGDPNSA" -> {"GDPMPS"}
      [] name = "PSNBCY"  -> {"PSNBNSA"}
      [] name = "OILBASE" -> {"PBRENT", "RXD"}

\* the largest lag an equation body reads
Lags(name) == IF name = "PRMIP" THEN 1 ELSE 0

\* the mean over the four quarters of 2009 of PBRENT / RXD
compute_OILBASE(d, tt) ==
    FDiv(FAdd(FAdd(FAdd(
        FDiv(elem(d, "PBRENT", BasePeriod), elem(d, "RXD", BasePeriod)),
        FDiv(elem(d, "PBRENT", BasePeriod), elem(d, "RXD", BasePeriod))),
        FDiv(elem(d, "PBRENT", BasePeriod), elem(d, "RXD", BasePeriod))),
        FDiv(elem(d, "PBRENT", BasePeriod), elem(d, "RXD", BasePeriod))),
        Lit(400))

compute_SCOST(d, tt) ==
    FAdd(FAdd(FAdd(FAdd(FAdd(FAdd(FAdd(
        FMul(Lit(7054), FDiv(v(d, tt, "ULCMS", 0), v(d, tt, "ULCMSBASE", 0))),
        FMul(Lit(693), FDiv(v(d, tt, "PMNOG", 0), v(d, tt, "PMNOGBASE", 0)))),
        FMul(Lit(641), FDiv(v(d, tt, "PMS", 0), v(d, tt, "PMSBASE", 0)))),
        FMul(Lit(9), FDiv(FDiv(v(d, tt, "PBRENT", 0), v(d, tt, "RXD", 0)),
                          v(d, tt, "OILBASE", 0)))),
        FMul(Lit(352), FDiv(FDiv(v(d, tt, "BPAPS", 0), v(d, tt, "GVA", 0)),
                            v(d, tt, "TXRATEBASE", 0)))),
        FMul(Lit(978), FDiv(v(d, tt, "PPIY", 0), v(d, tt, "PPIYBASE", 0)))),
        FMul(Lit(164), FDiv(v(d, tt, "CCOST", 0), Lit(10000)))),
        FMul(Lit(109), FDiv(v(d, tt, "UTCOST", 0), Lit(10000))))

compute_CCOST(d, tt) ==
    FAdd(FAdd(FAdd(FAdd(FAdd(FAdd(FAdd(
        FMul(Lit(4025), FDiv(v(d, tt, "ULCMS", 0), v(d, tt, "ULCMSBASE", 0))),
        FMul(Lit(280), FDiv(v(d, tt, "PMNOG", 0), v(d, tt, "PMNOGBASE", 0)))),
        FMul(Lit(90), FDiv(v(d, tt, "PMS", 0), v(d, tt, "PMSBASE", 0)))),
        FMul(Lit(3), FDiv(FDiv(v(d, tt, "PBRENT", 0), v(d, tt, "RXD", 0)),
                          v(d, tt, "OILBASE", 0)))),
        FMul(Lit(51), FDiv(FDiv(v(d, tt, "BPAPS", 0), v(d, tt, "GVA", 0)),
                           v(d, tt, "TXRATEBASE", 0)))),
        FMul(Lit(2706), FDiv(v(d, tt, "PPIY", 0), v(d, tt, "PPIYBASE", 0)))),
        FMul(Lit(2813), FDiv(v(d, tt, "SCOST", 0), Lit(10000)))),
        FMul(Lit(34), FDiv(v(d, tt, "UTCOST", 0), Lit(10000))))

compute_UTCOST(d, tt) ==
    FAdd(FAdd(FAdd(FAdd(FAdd(FAdd(FAdd(
        FMul(Lit(1485), FDiv(v(d, tt, "ULCMS", 0), v(d, tt, "ULCMSBASE", 0))),
        FMul(Lit(304), FDiv(v(d, tt, "PMNOG", 0), v(d, tt, "PMNOGBASE", 0)))),
        FMul(Lit(51), FDiv(v(d, tt, "PMS", 0), v(d, tt, "PMSBASE", 0)))),
        FMul(Lit(5152), FDiv(FDiv(v(d, tt, "PBRENT", 0), v(d, tt, "RXD", 0)),
                             v(d, tt, "OILBASE", 0)))),
        FMul(Lit(290), FDiv(FDiv(v(d, tt, "BPAPS", 0), v(d, tt, "GVA", 0)),
                            v(d, tt, "TXRATEBASE", 0)))),
        FMul(Lit(824), FDiv(v(d, tt, "PPIY", 0), v(d, tt, "PPIYBASE", 0)))),
        FMul(Lit(1600), FDiv(v(d, tt, "SCOST", 0), Lit(10000)))),
        FMul(Lit(295), FDiv(v(d, tt, "CCOST", 0), Lit(10000))))

\* PRMIP = PRMIP(-1) * (RMORT/RMORT(-1)) * (LHP/LHP(-1)) / (HH/HH(-1)),
\* then result += v('PRMIP_A')
compute_PRMIP(d, tt) ==
    LET result ==
            FDiv(FMul(FMul(v(d, tt, "PRMIP", 1),
                           FDiv(v(d, tt, "RMORT", 0), v(d, tt, "RMORT", 1))),
                      FDiv(v(d, tt, "LHP", 0), v(d, tt, "LHP", 1))),
                 FDiv(v(d, tt, "HH", 0), v(d, tt, "HH", 1)))
    IN  FAdd(result, v(d, tt, "PRMIP_A", 0))

compute_MGDPNSA(d, tt) == v(d, tt, "GDPMPS", 0)

compute_PSNBCY(d, tt) == v(d, tt, "PSNBNSA", 0)

\* func(data, t) of the registry entry called name
func(name, d, tt) ==
    IF ~(Reads(name) \subseteq Columns(d)) \/ (tt - Lags(name)) \notin DOMAIN d
    THEN [exc |-> TRUE, val |-> NaN]
    ELSE [exc |-> FALSE,
          val |-> CASE name = "SCOST"   -> compute_SCOST(d, tt)
                    [] name = "CCOST"   -> compute_CCOST(d, tt)
                    [] name = "UTCOST"  -> compute_UTCOST(d, tt)
                    [] name = "PRMIP"   -> compute_PRMIP(d, tt)
                    [] name = "MGDPNSA" -> compute_MGDPNSA(d, tt)
                    [] name = "PSNBCY"  -> compute_PSNBCY(d, tt)
                    [] name = "OILBASE" -> compute_OILBASE(d, tt)]

(***************************************************************************)
(* The registry (src/equations/__init__.py): the targets each group module *)
(* registers, in the order of its get_equations() list.                    *)
(***************************************************************************)
\* group04_labour.get_equations(): 17 targets
group04_labour ==
    <<"ECG", "ELA", "EPS", "EMS", "ET", "WRGTP", "WFJ", "ETLFS", "ES",
      "ESLFS", "GAD", "POP16", "ULFS", "LFSUR", "PRODH", "PART16", "ER">>

\* group07_prices.get_equations(): 44 targets
group07_prices ==
    <<"OILBASE", "PSAVEI", "EARN", "RPW", "RCW", "ULCPS", "MSGVAPSEMP",
      "FYEMPMS", "ULCMS", "ULCPSBASE", "ULCMSBASE", "PMNOGBASE", "PMSBASE",
      "TXRATEBASE", "PPIYBASE", "CPIXBASE", "SCOST", "CCOST", "UTCOST",
      "MCOST", "RPCOST", "ICOST", "XGCOST", "XSCOST", "MKGW", "MKR",
      "CPIX", "PRENT", "CPIH", "CPIRENT", "PRMIP", "PR", "RPI", "PXNOG",
      "PXS", "PMNOG", "PMS", "PINV", "PCE", "PIF", "PCDUR", "RHF", "HD",
      "PMSGVA">>

\* group15_income.get_equations(): 42 targets
group15_income ==
    <<"WFP", "MI", "EMPSC", "FYEMP", "EMPISC", "EMPASC", "EMPISCPP",
      "HHISC", "HHSB", "OSB", "SBHH", "TYWHH", "NMTRHH", "DIPHHx",
      "DIPHHmf", "DIPHH", "DIRHHx", "DIRHHf", "DIRICx", "DIRICf", "DIRIC",
      "DIPICx", "DIPICf", "DIPIC", "WYQC", "NDIVHH", "PIRHH", "PIPHH",
      "EECPP", "EESC", "HHDI", "RHHDI", "EMPCPP", "NEAHH", "SVHH", "SY",
      "KGHH", "NAFHH", "NAFCO", "NAFFC", "NAFIC", "SAVCO">>

\* group01_consumption.get_equations(): 5 targets
group01_consumption ==
    <<"CONS", "CONSPS", "CDUR", "CDURPS", "PD">>

\* group02_inventories.get_equations(): 7 targets
group02_inventories ==
    <<"DINV", "INV", "BV", "SA", "DINVPS", "DINVHH", "DINVCG">>

\* group03_investment.get_equations(): 42 targets
group03_investment ==
    <<"DB", "DP", "DV", "WB", "WP", "WV", "TAFB", "TAFP", "TAFV", "TAF",
      "WG", "CDEBT", "CEQUITY", "RWACC", "RDELTA", "COCU", "COC", "KSTAR",
      "KMSXH", "KGAP", "TQ", "PKMSXHB", "IBUS", "IBUSX", "GGIPS", "GGI",
      "GGIX", "GGIDEF", "HIMPROV", "PCIH", "VALPS", "VALHH", "IFPS",
      "PIPRL", "IHPS", "IHHPS", "PIBUS", "ICCPS", "IPCPS", "IFCPS",
      "NETAD", "HSALL">>

\* group05_exports.get_equations(): 3 targets
group05_exports ==
    <<"XNOG", "RPRICE", "XPS">>

\* group06_imports.get_equations(): 15 targets
group06_imports ==
    <<"MC", "MCGG", "MIF", "MDINV", "MXS", "MXG", "MTFE", "MINTY", "MGTFE",
      "PMGREL", "MNOG", "MSTFE", "PMSREL", "MS", "MPS">>

\* group08_northsea.get_equations(): 5 targets
group08_northsea ==
    <<"TDOIL", "MOIL", "PXOIL", "PMOIL", "NSGTP">>

\* group16_gdp.get_equations(): 33 targets
group16_gdp ==
    <<"TFEPS", "SDEPS", "GDPMPS", "MGDPNSA", "BPAPS", "GVAPS", "TFE",
      "BPA", "GVA", "PGVA", "TPRODPS", "SDI", "OS", "RENTCO", "IROO",
      "OSHH", "FISIMGG", "FISIMPS", "FYCPR", "OSCO", "GTPFC", "FC",
      "GNIPS", "NNSGVA", "GAP", "GDPMAL", "TRGDPAL", "GDPM16", "TRGDP16",
      "GGVAPS", "MSGVAPS", "GGVA", "MSGVA">>

\* group09_public_exp.get_equations(): 15 targets
group09_public_exp ==
    <<"CGWS", "LAWS", "OSGG", "CGP", "GGFCD", "CGG", "CGTSUB", "LASUBPR",
      "LATSUB", "CGASC", "CGISC", "EESCCG", "LASC", "EESCLA", "CGNCGA">>

\* group10_receipts.get_equations(): 13 targets
group10_receipts ==
    <<"CT", "CETAX", "VED", "OCT", "CGC", "PSINTR", "CGRENT", "TAXCRED",
      "INCTAXG", "PUBSTIW", "PUBSTPD", "PSCR", "NATAXES">>

\* group11_bop.get_equations(): 30 targets
group11_bop ==
    <<"RXD", "ECUPO", "DRES", "SRES", "REXC", "CIPD", "DIPD", "CGCBOP",
      "NIPD", "EECOMPD", "EECOMPC", "EUSUBP", "EUSUBPR", "EUSF", "ECNET",
      "GNP4", "EUVAT", "BENAB", "ITA", "CGITFA", "HHTFA", "HHTA", "TRANC",
      "TRAND", "TRANB", "CGKTA", "TB", "CB", "CBPCNT", "NAFROW">>

\* group12_public_totals.get_equations(): 31 targets
group12_public_totals ==
    <<"CGSUBP", "DEP", "PSCB", "NPACG", "NPALA", "PSGI", "TME", "CGNB",
      "LANB", "GGNB", "GGNBCY", "PCNB", "PCNBCY", "PSNBNSA", "PSNBCY",
      "SWAPS", "TDEF", "CGLSFA", "PSLSFA", "CGACADJ", "PSACADJ", "PSFL",
      "PSTA", "PSNW", "LABRO", "CGNCR", "PSNCR", "COIN", "PSND", "GGLIQ",
      "GGGD">>

\* group14_financial.get_equations(): 5 targets
group14_financial ==
    <<"RIC", "EQPR", "M0", "M4IC", "M4">>

\* group18_balance_sheet.get_equations(): 64 targets
group18_balance_sheet ==
    <<"NAFHHNSA", "SDLHH", "NLHH", "GMF", "DEPHHx", "DEPHH", "NAEQHHx",
      "NAEQHH", "EQHH", "NAPEN", "NAINSx", "NAINS", "PIHH", "DBR", "OAHHx",
      "OAHH", "GFWPE", "NAOLPEx", "NAOLPE", "DEBTU", "OLPEx", "OLPE",
      "AAHH", "ALHH", "HHRES", "OAHHADJ", "NFWPE", "GPW", "NAFROWNSA",
      "SDLROW", "NLROW", "DAROW", "EQAROW", "NAEQAROW", "BAROW", "NABAROW",
      "OTAROW", "NAOTAROW", "AROW", "AAROW", "DLROW", "NADLROW", "EQLROW",
      "NAEQLROW", "BLROW", "NABLROW", "OTLROW", "NAOTLROW", "LROW",
      "ALROW", "NIIP", "BLIC", "STLIC", "FXLIC", "EQLIC", "OLIC", "LIC",
      "NABLIC", "NAFXLIC", "NAEQLIC", "NALIC", "AIC", "NAAIC", "NWIC">>

\* the group modules in evaluation order
_GROUP_MODULES ==
    <<group04_labour, group07_prices, group15_income, group01_consumption,
      group02_inventories, group03_investment, group05_exports,
      group06_imports, group08_northsea, group16_gdp, group09_public_exp,
      group10_receipts, group11_bop, group12_public_totals,
      group14_financial, group18_balance_sheet>>

\* variant: a module's list is appended twice
Extend_Twice(all, module_equations) == all \o module_equations \o module_equations

\* all_equations.extend(module.get_equations())
Extend(all, module_equations) == all \o module_equations

\* the loop of get_all_equations() over the modules from position i on
RECURSIVE ExtendFrom(_, _)
ExtendFrom(all, i) ==
    IF i > Len(_GROUP_MODULES) THEN all
    ELSE ExtendFrom(Extend(all, _GROUP_MODULES[i]), i + 1)

\* the targets of get_all_equations(), in evaluation order
all_equations == ExtendFrom(<<>>, 1)

\* the registered equations whose bodies are part of this model
Endogenous == {"SCOST", "CCOST", "UTCOST", "PRMIP", "MGDPNSA", "PSNBCY"}

\* get_all_equations() restricted to them: the order is the registry's
get_all_equations == SelectSeq(all_equations, LAMBDA name : name \in Endogenous)

\* config.ADDITIVE_ADJUSTMENTS, in dictionary order
ADDITIVE_ADJUSTMENTS ==
    << <<"PRMIP", "PRMIP_A">>, <<"PSNBCY", "PSNBCY_A">>, <<"SBHH", "SBHH_A">>,
       <<"TYWHH", "TYWHH_A">>, <<"EESC", "EESC_A">>, <<"MGDPNSA", "MGDPNSA_A">> >>

(***************************************************************************)
(* GaussSeidelSolver helpers.                                              *)
(***************************************************************************)
\* variant: the fallback to 1.0 is missing
SeedValue_NoFallback(prev_val) == prev_val

\* the starting guess: the previous period's value, or 1.0 when that is NaN
SeedValue(prev_val) == IF ~IsNaN(prev_val) THEN prev_val ELSE Lit(100)

\* _initialise_period over the names not yet visited: the store it leaves,
\* and whether data.at[t_prev, name] raised KeyError (row t - 1 is missing)
RECURSIVE InitNames(_, _, _)
InitNames(d, tt, names) ==
    IF names = <<>> THEN [d |-> d, exc |-> FALSE]
    ELSE LET name == Head(names)
             d1 == IF name \notin Columns(d) THEN AddColumn(d, name) ELSE d
         IN  IF IsNaN(d1[tt][name])
             THEN IF (tt - 1) \notin DOMAIN d1
                  THEN [d |-> d1, exc |-> TRUE]
                  ELSE InitNames(SetCell(d1, tt, name, SeedValue(d1[tt - 1][name])),
                                 tt, Tail(names))
             ELSE InitNames(d1, tt, Tail(names))

_initialise_period(d, tt, endogenous_vars) == InitNames(d, tt, endogenous_vars)

\* variant: the cross terms are left out of the matrix (A = I)
LinSolve_NoCrossTerms(b1, b2, b3) == <<b1, b2, b3>>

\* np.linalg.solve(A, b) for the fixed matrix A = I - cross/100, whose
\* entries are held in units of 1/10000: LU elimination without row swaps
\* (A is diagonally dominant), each step rounded.  A NaN or infinity in b
\* is not an error: it propagates to the solution.
LinSolve(b1, b2, b3) ==
    LET K    == 10000
        a11  == 10000
        a12  == -164
        a13  == -109
        a21  == -2813
        a22  == 10000
        a23  == -34
        a31  == -1600
        a32  == -295
        a33  == 10000
        u22  == a22 - DivRound(a21 * a12, a11)
        u23  == a23 - DivRound(a21 * a13, a11)
        c2   == b2 - DivRound(a21 * b1, a11)
        w32  == a32 - DivRound(a31 * a12, a11)
        w33  == a33 - DivRound(a31 * a13, a11)
        w3   == b3 - DivRound(a31 * b1, a11)
        u33  == w33 - DivRound(w32 * u23, u22)
        c3   == w3 - DivRound(w32 * c2, u22)
        x3   == DivRound(c3 * K, u33)
        x2   == DivRound((c2 - DivRound(u23 * x3, K)) * K, u22)
        x1   == DivRound((b1 - DivRound(a12 * x2 + a13 * x3, K)) * K, a11)
    IN  IF IsNaN(b1) \/ IsNaN(b2) \/ IsNaN(b3) THEN <<NaN, NaN, NaN>>
        ELSE IF IsInf(b1) \/ IsInf(b2) \/ IsInf(b3)
             THEN (IF b1 = b2 /\ b2 = b3 THEN <<b1, b1, b1>> ELSE <<NaN, NaN, NaN>>)
        ELSE <<x1, x2, x3>>

\* the right-hand sides a1, a2, a3 from the inputs at tt, and
\* solution = np.linalg.solve(A, b)
CostBlockSolution(d, tt) ==
    LET ulc_r  == FDiv(d[tt]["ULCMS"], d[tt]["ULCMSBASE"])
        pmn_r  == FDiv(d[tt]["PMNOG"], d[tt]["PMNOGBASE"])
        pms_r  == FDiv(d[tt]["PMS"], d[tt]["PMSBASE"])
        oil_r  == FDiv(FDiv(d[tt]["PBRENT"], d[tt]["RXD"]), d[tt]["OILBASE"])
        tx_r   == FDiv(FDiv(d[tt]["BPAPS"], d[tt]["GVA"]), d[tt]["TXRATEBASE"])
        ppiy_r == FDiv(d[tt]["PPIY"], d[tt]["PPIYBASE"])
        a1 == FAdd(FAdd(FAdd(FAdd(FAdd(
                  FMul(Lit(7054), ulc_r), FMul(Lit(693), pmn_r)),
                  FMul(Lit(641), pms_r)), FMul(Lit(9), oil_r)),
                  FMul(Lit(352), tx_r)), FMul(Lit(978), ppiy_r))
        a2 == FAdd(FAdd(FAdd(FAdd(FAdd(
                  FMul(Lit(4025), ulc_r), FMul(Lit(280), pmn_r)),
                  FMul(Lit(90), pms_r)), FMul(Lit(3), oil_r)),
                  FMul(Lit(51), tx_r)), FMul(Lit(2706), ppiy_r))
        a3 == FAdd(FAdd(FAdd(FAdd(FAdd(
                  FMul(Lit(1485), ulc_r), FMul(Lit(304), pmn_r)),
                  FMul(Lit(51), pms_r)), FMul(Lit(5152), oil_r)),
                  FMul(Lit(290), tx_r)), FMul(Lit(824), ppiy_r))
    IN  LinSolve(a1, a2, a3)

\* variant: the write of the second cell fails, after the first was written
_pre_solve_cost_block_Partial(d, tt) ==
    IF "SCOST" \notin Columns(d) THEN d
    ELSE IF ~(CostInputs \subseteq Columns(d)) THEN d
    ELSE SetCell(d, tt, "SCOST", CostBlockSolution(d, tt)[1])

_pre_solve_cost_block(d, tt) ==
    IF "SCOST" \notin Columns(d) THEN d
    ELSE IF ~(CostInputs \subseteq Columns(d)) THEN d   \* KeyError, swallowed
    ELSE
        LET solution == CostBlockSolution(d, tt)
        IN  SetCell(SetCell(SetCell(d, tt, "SCOST", solution[1]),
                            tt, "CCOST", solution[2]),
                    tt, "UTCOST", solution[3])

\* variant: the pd.isna test of the adjustment value is missing
Adjusts_NoNaNCheck(d, tt, var, adj_var) ==
    var \in Columns(d) /\ adj_var \in Columns(d)

\* both columns exist and the adjustment value at tt is not NaN
Adjusts(d, tt, var, adj_var) ==
    var \in Columns(d) /\ adj_var \in Columns(d) /\ ~IsNaN(d[tt][adj_var])

\* variant: the adjustment replaces the value (= in place of +=)
Adjusted_Overwriting(val, adj_val) == adj_val

\* data.at[t, var] += adj_val
Adjusted(val, adj_val) == FAdd(val, adj_val)

\* _apply_additive_adjustments over the table entries from position i on
RECURSIVE AdjustFrom(_, _, _)
AdjustFrom(d, tt, i) ==
    IF i > Len(ADDITIVE_ADJUSTMENTS) THEN d
    ELSE LET var     == ADDITIVE_ADJUSTMENTS[i][1]
             adj_var == ADDITIVE_ADJUSTMENTS[i][2]
             d1 == IF Adjusts(d, tt, var, adj_var)
                   THEN SetCell(d, tt, var, Adjusted(d[tt][var], d[tt][adj_var]))
                   ELSE d
         IN  AdjustFrom(d1, tt, i + 1)

\* variant: the previous solved period is adjusted again
_apply_additive_adjustments_Backtracking(d, tt) ==
    AdjustFrom(IF tt > 1 THEN AdjustFrom(d, tt - 1, 1) ELSE d, tt, 1)

_apply_additive_adjustments(d, tt) == AdjustFrom(d, tt, 1)

(***************************************************************************)
(* Stores a run can start from.  Row 0 is history; the rows after it hold  *)
(* the exogenous inputs and undefined (NaN) endogenous cells.              *)
(***************************************************************************)
BaseColumns ==
    CostInputs \cup
    {"SCOST", "CCOST", "UTCOST", "PRMIP", "RMORT", "LHP", "HH", "PRMIP_A",
     "GDPMPS", "MGDPNSA", "MGDPNSA_A", "PSNBNSA", "PSNBCY", "PSNBCY_A"}

BaseCell(p, c) ==
    CASE c \in {"OILBASE", "TXRATEBASE"}     -> Lit(100)
      [] c = "PRMIP"   -> IF p = 0 THEN Lit(20000) ELSE NaN
      [] c = "PSNBCY"  -> IF p = 0 THEN Lit(-5000) ELSE NaN
      [] c = "PSNBNSA" -> Lit(-5000)
      [] c = "MGDPNSA" -> IF p = 0 THEN Lit(10000) ELSE NaN
      [] c = "GDPMPS"  -> IF p = 0 THEN Lit(10000) ELSE Lit(11000)
      [] c = "MGDPNSA_A" -> IF p = 0 THEN 0 ELSE Lit(300)
      [] c \in {"PRMIP_A", "PSNBCY_A"} -> 0
      [] c \in {"SCOST", "CCOST", "UTCOST"}  -> IF p = 0 THEN Lit(10000) ELSE NaN
      [] OTHER -> Lit(10000)

AdjChoices == {"zero", "value", "nan", "absent"}
InputChoices ==
    {"ok", "ppiy_nan", "base_zero", "col_absent", "rmort_zero", "new_column",
     "shock", "filled", "zero_seed"}

\* "shock": the cost inputs move away from their base values after row 0
ShockCell(p, c) ==
    CASE c = "ULCMS"  -> Lit(12000)
      [] c = "PMNOG"  -> Lit(9000)
      [] c = "PBRENT" -> Lit(15000)
      [] c = "BPAPS"  -> Lit(8000)
      [] c = "PPIY"   -> Lit(11000)
      [] OTHER -> BaseCell(p, c)

\* "filled": the endogenous cells after row 0 are supplied too, at the values
\* that satisfy the registered equations
FilledCell(p, c, adj) ==
    CASE c = "SCOST"   -> Lit(10000)
      [] c = "CCOST"   -> Lit(10002)
      [] c = "UTCOST"  -> Lit(10001)
      [] c = "PRMIP"   -> Lit(20000) + p * (IF adj = "value" THEN Lit(500) ELSE 0)
      [] c \in {"MGDPNSA", "GDPMPS"} -> Lit(11005)
      [] c = "PSNBCY"  -> BaseCell(p, "PSNBNSA")
      [] OTHER -> BaseCell(p, c)

\* "zero_seed": the history of PSNBCY is 0.0, and GDPMPS stays at its history
ZeroSeedCell(p, c) ==
    CASE c = "PSNBCY" -> IF p = 0 THEN 0 ELSE NaN
      [] c = "GDPMPS" -> Lit(10000)
      [] OTHER -> BaseCell(p, c)

\* the store of the scenario (adj, inp)
Store(adj, inp) ==
    LET cols == (BaseColumns
                    \ (IF adj = "absent" THEN {"PRMIP_A"} ELSE {}))
                    \ (IF inp = "col_absent" THEN {"PBRENT"}
                       ELSE IF inp = "new_column" THEN {"MGDPNSA"} ELSE {})
    IN  [p \in Periods |->
            [c \in cols |->
                IF c = "PRMIP_A" /\ adj = "value" /\ p > 0 THEN Lit(500)
                ELSE IF c = "PRMIP_A" /\ adj = "nan" /\ p > 0 THEN NaN
                ELSE IF c = "PPIY" /\ inp = "ppiy_nan" /\ p > 0 THEN NaN
                ELSE IF c = "PPIYBASE" /\ inp = "base_zero" THEN 0
                ELSE IF c = "RMORT" /\ inp = "rmort_zero" /\ p = 0 THEN 0
                ELSE IF inp = "shock" /\ p > 0 THEN ShockCell(p, c)
                ELSE IF inp = "filled" /\ p > 0 THEN FilledCell(p, c, adj)
                ELSE IF inp = "zero_seed" THEN ZeroSeedCell(p, c)
                ELSE BaseCell(p, c)]]

\* the scenarios a run starts from: every adjustment choice on the plain
\* inputs, every input choice with a zero adjustment, and the supplied
\* endogenous cells with a non-zero adjustment
Scenarios ==
    {<<adj, "ok">> : adj \in AdjChoices}
        \cup {<<"zero", inp>> : inp \in InputChoices}
        \cup {<<"value", "filled">>}

\* the registries a solver is constructed with: get_all_equations(), a
\* registry that leaves the cost block and PRMIP to the caller's data, and
\* the base-value equation of group 7 alone
Registries == {get_all_equations, <<"MGDPNSA", "PSNBCY">>, <<"OILBASE">>}

(***************************************************************************)
(* State.                                                                  *)
(***************************************************************************)
VARIABLES
    data,           \* the store passed by reference to the solver
    equations,      \* self.equations (names; function and kind follow the name)
    max_iter,       \* self.max_iter
    tol,            \* self.tol
    damping,        \* self.damping
    start_period,   \* solve_range argument
    end_period,     \* solve_range argument
    t,              \* solve_range's loop variable, solve_period's argument
    results,        \* solve_range's result list
    iters,          \* value returned by the last solve_period
    pc,             \* position in solve_range / solve_period
    iteration,      \* loop variable of the sweep loop (from 0)
    eq,             \* position in the registry within the sweep (from 1)
    max_change,     \* largest relative change of the sweep so far
    worst_var,      \* variable that has it
    warnings,       \* non-convergence warnings printed so far
    log,            \* steps performed by the current solve_period call
    sweeps,         \* per sweep of the current call: outcome of each equation
    calls,          \* per period: solve_period and post-processor calls so far
    run,            \* 1: first solve of the store, 2: the separate second solve
    data0,          \* the store as loaded
    end2,           \* end period of the second solve
    first,          \* outcome of the first solve
    args,           \* the arguments GaussSeidelSolver was constructed with
    sweep_row,      \* row t of the store as the current sweep found it
    written         \* the values the current sweep has written, by variable

vars == <<data, equations, max_iter, tol, damping, start_period, end_period, t,
          results, iters, pc, iteration, eq, max_change, worst_var, warnings,
          log, sweeps, calls, run, data0, end2, first, sweep_row, written,
          args>>

\* the record of the current sweep
sweep_vars == <<sweep_row, written>>

\* no variable has been written: the function with the empty domain
NoneWritten == [name \in {} |-> 0]

config_vars ==
    <<equations, max_iter, tol, damping, start_period, data0, end2, args>>

\* self.endogenous_vars = [name for name, _, _ in equations]
endogenous_vars == equations

(***************************************************************************)
(* GaussSeidelSolver.__init__                                              *)
(***************************************************************************)
\* an argument that is omitted
None == -1000000001

\* config.SOLVER_MAX_ITER, SOLVER_TOLERANCE and SOLVER_DAMPING.  1e-8 is
\* positive and below the resolution: it is held as the smallest positive
\* value, so that max_change < 1e-8 is max_change = 0 here as well.
SOLVER_MAX_ITER == 200
SOLVER_TOLERANCE == 1
SOLVER_DAMPING == Lit(70)

\* x or default: None and 0 are both falsy
OrDefault(x, default) == IF x = None \/ x = 0 THEN default ELSE x

\* solvers constructed with every argument given and not zero
ExplicitArgs ==
    [max_iter : 1..MaxIter, tolerance : {Lit(2)}, damping : {Lit(70), Lit(100)}]

\* solvers constructed with an argument given as 0, or with none given
BoundaryArgs ==
    {[max_iter |-> 0, tolerance |-> Lit(2), damping |-> Lit(100)],
     [max_iter |-> 2, tolerance |-> 0, damping |-> Lit(100)],
     [max_iter |-> 2, tolerance |-> Lit(2), damping |-> 0],
     [max_iter |-> None, tolerance |-> None, damping |-> None]}

ConstructorArgs == ExplicitArgs \cup BoundaryArgs

NoCalls == [p \in Periods |-> [solve_period |-> 0, adjust |-> 0]]

\* GaussSeidelSolver(equations, max_iter, tolerance, damping) and a loaded
\* store; solve_range(data, start, end).  Row 0 is the first row of the store:
\* a range that starts there has no run-up row before it.
Init ==
    /\ \E sc \in Scenarios :
          /\ data = Store(sc[1], sc[2])
          /\ data0 = Store(sc[1], sc[2])
    /\ equations \in Registries
    /\ equations = <<"OILBASE">> =>
          data0 \in {Store("zero", "ok"), Store("zero", "shock")}
    /\ args \in ConstructorArgs
    /\ args \in BoundaryArgs => data0 \in {Store("zero", "ok"), Store("zero", "shock")}
    /\ max_iter = OrDefault(args.max_iter, SOLVER_MAX_ITER)
    /\ tol = OrDefault(args.tolerance, SOLVER_TOLERANCE)
    /\ damping = OrDefault(args.damping, SOLVER_DAMPING)
    /\ start_period \in 0..MaxPeriod
    /\ end_period \in (start_period - 1)..(MaxPeriod - 1)
    /\ end2 \in (end_period + 1)..MaxPeriod
    /\ t = start_period
    /\ results = <<>>
    /\ iters = 0
    /\ pc = "range_loop"
    /\ iteration = 0
    /\ eq = 1
    /\ max_change = 0
    /\ worst_var = ""
    /\ warnings = <<>>
    /\ log = <<>>
    /\ sweeps = <<>>
    /\ calls = NoCalls
    /\ run = 1
    /\ first = [data |-> <<>>, results |-> <<>>, warnings |-> <<>>,
                end_period |-> 0]
    /\ sweep_row = NoneWritten
    /\ written = NoneWritten

(***************************************************************************)
(* solve_range                                                             *)
(***************************************************************************)
\* variant: the last period of the range is left out
LoopCondition_Strict(tt, end) == tt < end

\* while t <= end_period
LoopCondition(tt, end) == tt <= end

\* t = t + 1
NextPeriod(tt) == tt + 1

\* the loop condition holds: iters = self.solve_period(data, t)
SolveRangeLoop ==
    /\ pc = "range_loop"
    /\ LoopCondition(t, end_period)
    /\ pc' = "initialise"
    /\ log' = <<>>
    /\ sweeps' = <<>>
    /\ calls' = [calls EXCEPT ![t].solve_period = @ + 1]
    /\ UNCHANGED <<data, t, results, iters, iteration, eq, max_change,
                   worst_var, warnings, run, first, end_period>>
    /\ UNCHANGED config_vars
    /\ sweep_row' = NoneWritten
    /\ written' = NoneWritten

\* the loop condition fails: return results
SolveRangeReturn ==
    /\ pc = "range_loop"
    /\ ~LoopCondition(t, end_period)
    /\ pc' = "returned"
    /\ UNCHANGED <<data, t, results, iters, iteration, eq, max_change,
                   worst_var, warnings, log, sweeps, calls, run, first,
                   end_period>>
    /\ UNCHANGED config_vars
    /\ UNCHANGED sweep_vars

\* results.append((t, iters)); t = t + 1
RecordPeriod ==
    /\ pc = "period_return"
    /\ results' = Append(results, <<t, iters>>)
    /\ t' = NextPeriod(t)
    /\ pc' = "range_loop"
    /\ UNCHANGED <<data, iters, iteration, eq, max_change, worst_var,
                   warnings, log, sweeps, calls, run, first, end_period>>
    /\ UNCHANGED config_vars
    /\ UNCHANGED sweep_vars

(***************************************************************************)
(* solve_period                                                            *)
(***************************************************************************)
\* Step 1: self._initialise_period(data, t)
InitialisePeriod ==
    /\ pc = "initialise"
    /\ ~_initialise_period(data, t, endogenous_vars).exc
    /\ data' = _initialise_period(data, t, endogenous_vars).d
    /\ log' = Append(log, "initialise")
    /\ pc' = "pre_solve"
    /\ UNCHANGED <<t, results, iters, iteration, eq, max_change, worst_var,
                   warnings, sweeps, calls, run, first, end_period>>
    /\ UNCHANGED config_vars
    /\ UNCHANGED sweep_vars

\* Step 1 raises KeyError on row t - 1: the exception leaves solve_period
\* and solve_range, with the columns added so far left in the store
InitialiseRaises ==
    /\ pc = "initialise"
    /\ _initialise_period(data, t, endogenous_vars).exc
    /\ data' = _initialise_period(data, t, endogenous_vars).d
    /\ pc' = "key_error"
    /\ UNCHANGED <<t, results, iters, iteration, eq, max_change, worst_var,
                   warnings, log, sweeps, calls, run, first, end_period>>
    /\ UNCHANGED config_vars
    /\ UNCHANGED sweep_vars

\* Step 2: self._pre_solve_cost_block(data, t)
PreSolve ==
    /\ pc = "pre_solve"
    /\ data' = _pre_solve_cost_block(data, t)
    /\ log' = Append(log, "pre_solve")
    /\ iteration' = 0
    /\ pc' = "sweep_begin"
    /\ UNCHANGED <<t, results, iters, eq, max_change, worst_var,
                   warnings, sweeps, calls, run, first, end_period>>
    /\ UNCHANGED config_vars
    /\ UNCHANGED sweep_vars

\* variant: the pre-solver is run again at the top of every sweep
SweepBegin_PreSolving ==
    /\ pc = "sweep_begin"
    /\ max_change' = 0
    /\ worst_var' = ""
    /\ eq' = 1
    /\ data' = _pre_solve_cost_block(data, t)
    /\ log' = Append(Append(log, "pre_solve"), "sweep")
    /\ sweeps' = Append(sweeps, <<>>)
    /\ pc' = "equation"
    /\ UNCHANGED <<t, results, iters, iteration, warnings, calls,
                   run, first, end_period>>
    /\ UNCHANGED config_vars
    /\ sweep_row' = _pre_solve_cost_block(data, t)[t]
    /\ written' = NoneWritten

\* top of the body of: for iteration in range(self.max_iter)
SweepBegin ==
    /\ pc = "sweep_begin"
    /\ max_change' = 0
    /\ worst_var' = ""
    /\ eq' = 1
    /\ log' = Append(log, "sweep")
    /\ sweeps' = Append(sweeps, <<>>)
    /\ pc' = "equation"
    /\ UNCHANGED <<data, t, results, iters, iteration, warnings, calls,
                   run, first, end_period>>
    /\ UNCHANGED config_vars
    /\ sweep_row' = data[t]
    /\ written' = NoneWritten

\* variant: the sweep evaluates on the row as it stood when the sweep began
ReadStore_Jacobi(d, tt, row) == [d EXCEPT ![tt] = row]

\* the store func(data, t) is called on: the live store, which holds the
\* cells this sweep has already written
ReadStore(d, tt, row) == d

\* variant: old_val is replaced by 0.0 whatever the cell holds
OldVal_AlwaysZero(d, tt, name) == 0

\* the stored value, or 0.0 when it is NaN
OldVal(d, tt, name) == IF IsNaN(d[tt][name]) THEN 0 ELSE d[tt][name]

\* variant: the infinity test is missing
Failed_NoInfCheck(r) == r.exc \/ IsNaN(r.val)

\* the evaluation raised, or new_val is NaN or infinite (no body returns None)
Failed(r) == r.exc \/ IsNaN(r.val) \/ IsInf(r.val)

\* variant: the old value is not weighted by 1 - damping
Damped_Unweighted(damp, new_val, old_val) == FAdd(FMul(damp, new_val), old_val)

\* damping * new_val + (1 - damping) * old_val
Damped(damp, new_val, old_val) ==
    FAdd(FMul(damp, new_val), FMul(FSub(Lit(100), damp), old_val))

\* variant: every update counts in the convergence metric
Tracked_Always(old_val) == TRUE

\* abs(old_val) > 1e-10: the update counts in the convergence metric.  1e-10
\* is below the resolution, so only the value 0 is within it.
Eps == 0
Tracked(old_val) == FGt(FAbs(old_val), Eps)

\* abs((damped_val - old_val) / old_val)
RelChange(damped_val, old_val) == FAbs(FDiv(FSub(damped_val, old_val), old_val))

\* variant: the comparison is reversed
IsWorse_Reversed(rel_change, mc) == FLt(rel_change, mc)

\* if rel_change > max_change
IsWorse(rel_change, mc) == FGt(rel_change, mc)

\* the outcome of the equation is recorded in the current sweep
Outcome(name, skipped, tracked, rel) ==
    [name |-> name, skipped |-> skipped, tracked |-> tracked, rel |-> rel]

RecordOutcome(o) ==
    sweeps' = [sweeps EXCEPT ![Len(sweeps)] = Append(@, o)]

\* after the body of the equation loop: next equation, or the sweep is over
AfterEquation ==
    /\ eq' = eq + 1
    /\ pc' = IF eq = Len(equations) THEN "convergence_check" ELSE "equation"

\* variant: a failed evaluation counts as an unbounded change of its variable
EquationSkip_Counting ==
    /\ pc = "equation"
    /\ Failed(func(equations[eq], ReadStore(data, t, sweep_row), t))
    /\ max_change' = PosInf
    /\ worst_var' = equations[eq]
    /\ RecordOutcome(Outcome(equations[eq], TRUE, FALSE, 0))
    /\ AfterEquation
    /\ UNCHANGED <<data, t, results, iters, iteration,
                   warnings, log, calls, run, first, end_period>>
    /\ UNCHANGED config_vars
    /\ UNCHANGED sweep_vars

\* the evaluation failed: continue
EquationSkip ==
    /\ pc = "equation"
    /\ Failed(func(equations[eq], ReadStore(data, t, sweep_row), t))
    /\ RecordOutcome(Outcome(equations[eq], TRUE, FALSE, 0))
    /\ AfterEquation
    /\ UNCHANGED <<data, t, results, iters, iteration, max_change, worst_var,
                   warnings, log, calls, run, first, end_period>>
    /\ UNCHANGED config_vars
    /\ UNCHANGED sweep_vars

\* the evaluation succeeded: damped in-place update, convergence tracking
EquationUpdate ==
    /\ pc = "equation"
    /\ LET name       == equations[eq]
           old_val    == OldVal(data, t, name)
           r          == func(name, ReadStore(data, t, sweep_row), t)
           damped_val == Damped(damping, r.val, old_val)
           rel_change == RelChange(damped_val, old_val)
       IN  /\ ~Failed(r)
           /\ data' = SetCell(data, t, name, damped_val)
           /\ written' = (name :> damped_val) @@ written
           /\ IF Tracked(old_val) /\ IsWorse(rel_change, max_change)
              THEN /\ max_change' = rel_change
                   /\ worst_var' = name
              ELSE UNCHANGED <<max_change, worst_var>>
           /\ RecordOutcome(Outcome(name, FALSE, Tracked(old_val),
                                    IF Tracked(old_val) THEN rel_change ELSE 0))
    /\ AfterEquation
    /\ UNCHANGED <<t, results, iters, iteration, warnings, log, calls,
                   run, first, end_period>>
    /\ UNCHANGED config_vars
    /\ UNCHANGED sweep_row

\* variant: the test is not strict
IsConverged_NonStrict(mc, tl) == ~FGt(mc, tl)

\* if max_change < self.tol
IsConverged(mc, tl) == FLt(mc, tl)

\* variant: the loop runs until convergence, whatever max_iter is
SweepsLeft_Unbounded(it, mi) == TRUE

\* for iteration in range(self.max_iter): another sweep follows this one
SweepsLeft(it, mi) == it + 1 < mi

\* self._apply_additive_adjustments(data, t), at either call site
ApplyAdjustments ==
    /\ data' = _apply_additive_adjustments(data, t)
    /\ log' = Append(log, "adjust")
    /\ calls' = [calls EXCEPT ![t].adjust = @ + 1]

\* variant: the loop variable is returned as it is
ReturnedCount_ZeroBased(it) == it

\* return iteration + 1
ReturnedCount(it) == it + 1

\* converged: apply the adjustments and return iteration + 1
Converged ==
    /\ pc = "convergence_check"
    /\ IsConverged(max_change, tol)
    /\ ApplyAdjustments
    /\ iters' = ReturnedCount(iteration)
    /\ pc' = "period_return"
    /\ UNCHANGED <<t, results, iteration, eq, max_change, worst_var,
                   warnings, sweeps, run, first, end_period>>
    /\ UNCHANGED config_vars
    /\ UNCHANGED sweep_vars

\* variant: the adjustments are applied at the end of every sweep
NextSweep_Adjusting ==
    /\ pc = "convergence_check"
    /\ ~IsConverged(max_change, tol)
    /\ SweepsLeft(iteration, max_iter)
    /\ ApplyAdjustments
    /\ iteration' = iteration + 1
    /\ pc' = "sweep_begin"
    /\ UNCHANGED <<t, results, iters, eq, max_change, worst_var,
                   warnings, sweeps, run, first, end_period>>
    /\ UNCHANGED config_vars
    /\ UNCHANGED sweep_vars

\* not converged and sweeps are left: next iteration of the for loop
NextSweep ==
    /\ pc = "convergence_check"
    /\ ~IsConverged(max_change, tol)
    /\ SweepsLeft(iteration, max_iter)
    /\ iteration' = iteration + 1
    /\ pc' = "sweep_begin"
    /\ UNCHANGED <<data, t, results, iters, eq, max_change, worst_var,
                   warnings, log, sweeps, calls, run, first, end_period>>
    /\ UNCHANGED config_vars
    /\ UNCHANGED sweep_vars

\* variant: raise ConvergenceError, which leaves solve_range as well
NotConverged_Raising ==
    /\ pc = "convergence_check"
    /\ ~IsConverged(max_change, tol)
    /\ ~SweepsLeft(iteration, max_iter)
    /\ pc' = "raised"
    /\ UNCHANGED <<data, t, results, iters, iteration, eq, max_change,
                   worst_var, warnings, log, sweeps, calls, run, first,
                   end_period>>
    /\ UNCHANGED config_vars
    /\ UNCHANGED sweep_vars

\* the for loop is exhausted: warn, apply the adjustments, return max_iter
NotConverged ==
    /\ pc = "convergence_check"
    /\ ~IsConverged(max_change, tol)
    /\ ~SweepsLeft(iteration, max_iter)
    /\ warnings' = Append(warnings,
                          [t |-> t, max_change |-> max_change,
                           worst_var |-> worst_var])
    /\ ApplyAdjustments
    /\ iters' = max_iter
    /\ pc' = "period_return"
    /\ UNCHANGED <<t, results, iteration, eq, max_change, worst_var,
                   sweeps, run, first, end_period>>
    /\ UNCHANGED config_vars
    /\ UNCHANGED sweep_vars

(***************************************************************************)
(* The store is loaded again and solved separately over a longer range.    *)
(***************************************************************************)
SolveAgain ==
    /\ pc = "returned"
    /\ run = 1
    /\ first' = [data |-> data, results |-> results, warnings |-> warnings,
                 end_period |-> end_period]
    /\ run' = 2
    /\ data' = data0
    /\ end_period' = end2
    /\ t' = start_period
    /\ results' = <<>>
    /\ warnings' = <<>>
    /\ calls' = NoCalls
    /\ log' = <<>>
    /\ sweeps' = <<>>
    /\ pc' = "range_loop"
    /\ UNCHANGED <<iters, iteration, eq, max_change, worst_var>>
    /\ UNCHANGED config_vars
    /\ sweep_row' = NoneWritten
    /\ written' = NoneWritten

Next ==
    \/ SolveRangeLoop
    \/ SolveRangeReturn
    \/ RecordPeriod
    \/ InitialisePeriod
    \/ InitialiseRaises
    \/ PreSolve
    \/ SweepBegin
    \/ EquationSkip
    \/ EquationUpdate
    \/ Converged
    \/ NextSweep
    \/ NotConverged
    \/ SolveAgain

Spec == Init /\ [][Next]_vars

(***************************************************************************)
(* Properties.                                                             *)
(***************************************************************************)
RangeOf(seq) == {seq[i] : i \in 1..Len(seq)}

InSolvePeriod ==
    pc \in {"initialise", "pre_solve", "sweep_begin", "equation",
            "convergence_check"}

\* number of post-processor runs in a call log
AdjustCount(l) == Cardinality({i \in 1..Len(l) : l[i] = "adjust"})

\* a non-convergence warning was printed for period tt
Warned(tt) == \E i \in 1..Len(warnings) : warnings[i].t = tt

\* reference: the largest relative change among the tracked updates of a sweep
SweepMax(sw) ==
    LET rels == {0} \cup {sw[j].rel : j \in {i \in 1..Len(sw) :
                              ~sw[i].skipped /\ sw[i].tracked /\ ~IsNaN(sw[i].rel)}}
    IN  CHOOSE m \in rels : \A x \in rels : x <= m

\* reference: sweep k of the current call ended strictly below tolerance
Below(k) == SweepMax(sweeps[k]) < tol

\* the equation called name failed in every sweep of the current call
FailedEverySweep(name) ==
    /\ sweeps # <<>>
    /\ \A k \in 1..Len(sweeps) :
          \E j \in 1..Len(sweeps[k]) :
              sweeps[k][j].name = name /\ sweeps[k][j].skipped

\* C1: in every solve_period call the post-processor runs exactly once, after
\* the last sweep and never before or inside a sweep; solve_range therefore
\* applies it exactly once to each period of the range and to no other.
C1_AdjustOncePerPeriod ==
    /\ InSolvePeriod => AdjustCount(log) = 0
    /\ pc = "period_return" =>
          /\ AdjustCount(log) = 1
          /\ log[Len(log)] = "adjust"
          /\ log[Len(log) - 1] = "sweep"
    /\ \A p \in Periods : calls[p].adjust <= calls[p].solve_period
    /\ pc = "returned" =>
          \A p \in Periods :
              calls[p].adjust = IF p \in start_period..end_period THEN 1 ELSE 0

C1_Witness ==
    /\ pc = "returned"
    /\ Len(results) = 2
    /\ Warned(1) /\ ~Warned(2)
    /\ calls[1].adjust = 1 /\ calls[2].adjust = 1

\* C2: no equation of an adjustment target adds the companion adjustment
\* variable to its candidate during a sweep: the candidate is the same
\* whatever the adjustment cell holds.
C2_AdjustmentNotFedBack ==
    \A i \in 1..Len(ADDITIVE_ADJUSTMENTS) :
        LET var     == ADDITIVE_ADJUSTMENTS[i][1]
            adj_var == ADDITIVE_ADJUSTMENTS[i][2]
        IN  (pc = "equation" /\ equations[eq] = var /\ adj_var \in Columns(data))
            => func(var, data, t) = func(var, SetCell(data, t, adj_var, 0), t)

\* an input the pre-solver reads at tt is a missing column or a NaN cell
PreSolveInputUndefined(d, tt) ==
    \/ ~(CostInputs \subseteq Columns(d))
    \/ \E c \in CostInputs \cap Columns(d) : IsNaN(d[tt][c])

\* C3: when an input of the pre-solver is undefined at t, the pre-solve
\* leaves SCOST, CCOST and UTCOST at t as they were.
C3_PreSolveSkipsUndefinedInput ==
    [][(pc = "pre_solve" /\ PreSolveInputUndefined(data, t))
          => \A c \in {"SCOST", "CCOST", "UTCOST"} :
                 /\ c \in Columns(data') <=> c \in Columns(data)
                 /\ c \in Columns(data) => data'[t][c] = data[t][c]]_vars

\* C4 as stated: an equation that fails in every sweep of a period makes the
\* period end with a non-convergence warning.
C4_FailureSurfacesAsNonConvergence ==
    (pc = "period_return" /\ \E name \in RangeOf(equations) : FailedEverySweep(name))
        => Warned(t)

\* C4 as amended: an equation that fails in every sweep is ignored by the
\* convergence test: the period is warned about exactly when the tracked
\* updates of the other variables leave the last sweep at or above
\* tolerance, and a warning never names the failed variable.
C4_FailedEquationIgnored ==
    pc = "period_return" =>
        \A name \in RangeOf(equations) :
            FailedEverySweep(name) =>
                /\ Warned(t) <=> ~Below(Len(sweeps))
                /\ \A i \in 1..Len(warnings) :
                      warnings[i].t = t => warnings[i].worst_var # name

C4_Witness ==
    /\ pc = "period_return"
    /\ FailedEverySweep("PRMIP")
    /\ Len(sweeps) >= 2
    /\ ~Warned(t)

\* the evaluation of the current equation raises or is NaN or infinite
EvaluationFails ==
    LET r == func(equations[eq], data, t)
    IN  r.exc \/ r.val = NaN \/ r.val = PosInf \/ r.val = NegInf

\* the evaluation of the equation called name raises or is NaN or infinite
EvaluationFailsFor(name) ==
    LET r == func(name, data, t)
    IN  r.exc \/ r.val = NaN \/ r.val = PosInf \/ r.val = NegInf

\* C5: a failed evaluation leaves the store and the relative-change metric
\* as they are and the sweep goes on with the next equation of the registry.
C5_FailedEvaluationSkipped ==
    [][(pc = "equation" /\ EvaluationFails)
          => /\ data' = data
             /\ max_change' = max_change
             /\ worst_var' = worst_var
             /\ iteration' = iteration
             /\ eq' = eq + 1
             /\ pc' = IF eq < Len(equations) THEN "equation"
                      ELSE "convergence_check"]_vars

C5_Witness ==
    /\ pc = "equation"
    /\ eq = 5
    /\ sweeps[Len(sweeps)][4].skipped
    /\ ~sweeps[Len(sweeps)][3].skipped

C7_WarningNamesWorstVariable ==
    pc = "period_return" =>
        LET ws   == {i \in 1..Len(warnings) : warnings[i].t = t}
            last == sweeps[Len(sweeps)]
        IN  /\ ws # {} <=> (\A k \in 1..Len(sweeps) : ~Below(k))
            /\ ws # {} => Len(sweeps) = max_iter
            /\ Cardinality(ws) <= 1
            /\ \A i \in ws :
                  /\ warnings[i].worst_var # ""
                  /\ warnings[i].worst_var \in RangeOf(equations)
                  /\ warnings[i].max_change = SweepMax(last)
                  /\ \E j \in 1..Len(last) :
                        /\ last[j].name = warnings[i].worst_var
                        /\ ~last[j].skipped /\ last[j].tracked
                        /\ last[j].rel = warnings[i].max_change

C7_Witness ==
    /\ pc = "period_return"
    /\ Warned(t)
    /\ Len(sweeps) = 2
    /\ worst_var = "MGDPNSA"

\* C8: convergence is tested only after a full sweep; the call returns the
\* number of the first sweep that ended strictly below tolerance and runs no
\* sweep after it.
C8_ReturnsFirstConvergedSweep ==
    /\ pc = "convergence_check" =>
          Len(sweeps[Len(sweeps)]) = Len(equations)
    /\ pc = "equation" => \A k \in 1..(Len(sweeps) - 1) : ~Below(k)
    /\ pc = "sweep_begin" => \A k \in 1..Len(sweeps) : ~Below(k)
    /\ pc = "period_return" =>
          /\ \A k \in 1..Len(sweeps) : Len(sweeps[k]) = Len(equations)
          /\ Len(sweeps) = iters
          /\ (\E k \in 1..Len(sweeps) : Below(k))
                => /\ Below(iters)
                   /\ \A k \in 1..(iters - 1) : ~Below(k)
          /\ ~(\E k \in 1..Len(sweeps) : Below(k)) => iters = max_iter

C8_Witness ==
    /\ pc = "period_return"
    /\ iters = 2
    /\ max_iter = 3
    /\ Below(2) /\ ~Below(1)

\* C9: solving [t0, t1] and separately solving [t0, t2], t2 > t1, from the
\* same store gives the same stored values and the same iteration counts
\* for every period of [t0, t1].
C9_PrefixDeterminism ==
    (pc = "returned" /\ run = 2) =>
        /\ \A p \in start_period..first.end_period : data[p] = first.data[p]
        /\ Len(results) >= Len(first.results)
        /\ \A i \in 1..Len(first.results) : results[i] = first.results[i]

C9_Witness ==
    /\ pc = "returned" /\ run = 2
    /\ Len(first.results) >= 1
    /\ Len(results) > Len(first.results)
    /\ data[end2] # data0[end2]

\* C10: solve_range solves each period of [start, end] exactly once, in
\* ascending order, and returns one record per period in that order; for
\* start > end it solves nothing and returns the empty list.
C10_OneRecordPerPeriodAscending ==
    /\ \A i \in 1..Len(results) : results[i][1] = start_period + i - 1
    /\ \A p \in Periods :
          calls[p].solve_period =
              IF p \in start_period..end_period
                 /\ (p < t \/ (p = t /\ pc # "range_loop"))
              THEN 1 ELSE 0
    /\ pc = "returned" =>
          /\ Len(results) = IF start_period > end_period THEN 0
                            ELSE end_period - start_period + 1
          /\ t = IF start_period > end_period THEN start_period
                 ELSE end_period + 1
          /\ (start_period > end_period /\ run = 1) => data = data0

C10_Witness ==
    /\ pc = "returned" /\ run = 2
    /\ first.results = <<>>
    /\ first.end_period < start_period
    /\ Len(results) = 2
    /\ results[1][1] = 1 /\ results[2][1] = 2

\* C11: a step of solve_period(data, t) leaves every existing cell of every
\* row other than t as it was (a column it adds is NaN in those rows), and
\* the row of a period solve_range has finalized is never changed again.
C11_NoBacktracking ==
    [][InSolvePeriod =>
          /\ \A p \in Periods \ {t} :
                /\ \A c \in Columns(data) : data'[p][c] = data[p][c]
                /\ \A c \in Columns(data') \ Columns(data) : IsNaN(data'[p][c])
          /\ \A p \in start_period..(t - 1) : data'[p] = data[p]]_vars

C11_Witness ==
    /\ pc = "returned" /\ run = 2
    /\ results = <<<<1, iters>>, <<2, iters>>>>
    /\ "MGDPNSA" \notin Columns(data0)
    /\ IsNaN(data[0]["MGDPNSA"])
    /\ data[1]["MGDPNSA"] # data[2]["MGDPNSA"]
    /\ \A c \in Columns(data0) : data[0][c] = data0[0][c]

\* C12: no step of solve_period or solve_range changes a cell of a column
\* that is not a target of the registry.
C12_ExogenousNeverWritten ==
    [][pc # "returned" =>
          \A c \in Columns(data) \ RangeOf(equations) :
              \A p \in Periods : data'[p][c] = data[p][c]]_vars

\* C13: initialization of period t leaves a defined endogenous cell at t as
\* it is, sets an undefined one to the value at t-1 when that is defined and
\* to 1.0 otherwise (also for a column that did not exist), and leaves every
\* endogenous cell at t defined.
C13_InitialisationSeeds ==
    [][(pc = "initialise" /\ pc' = "pre_solve") =>
          \A name \in RangeOf(equations) :
              /\ name \in Columns(data')
              /\ ~IsNaN(data'[t][name])
              /\ data'[t][name] =
                    IF name \in Columns(data) /\ ~IsNaN(data[t][name])
                    THEN data[t][name]
                    ELSE IF name \in Columns(data) /\ ~IsNaN(data[t - 1][name])
                    THEN data[t - 1][name]
                    ELSE Lit(100)]_vars

C13_Witness ==
    /\ pc = "pre_solve"
    /\ t = 1
    /\ "MGDPNSA" \notin Columns(data0)
    /\ data[t]["MGDPNSA"] = Lit(100)
    /\ IsNaN(data0[t]["PRMIP"])
    /\ data[t]["PRMIP"] = data0[t - 1]["PRMIP"]

\* C14: after solve_range returns, every registered variable holds a defined,
\* non-NaN value at every solved period.
C14_EndogenousDefinedAfterSolve ==
    pc = "returned" =>
        \A p \in start_period..end_period :
            \A name \in RangeOf(equations) :
                name \in Columns(data) /\ ~IsNaN(data[p][name])

\* bound, in units of 1/Scale, on the rounding residual of a cost equation:
\* the quotients SCOST/100, CCOST/100 and UTCOST/100 are rounded to half a
\* unit and weighted by cross coefficients of at most 28.13 + 0.34, and the
\* products and the elimination steps are rounded to half a unit each
CostTol == 17

CostBlock == {"SCOST", "CCOST", "UTCOST"}

\* the pre-solve at tt wrote a finite solution into d
PreSolveWrote(d, tt) ==
    /\ CostBlock \cup CostInputs \subseteq Columns(d)
    /\ \A c \in CostBlock : ~IsNaN(d[tt][c]) /\ ~IsInf(d[tt][c])

\* C15: right after the pre-solve has written a finite solution, each of
\* compute_SCOST, compute_CCOST and compute_UTCOST, evaluated on the store,
\* returns the value the pre-solve wrote for its target (to the rounding of
\* the arithmetic).
C15_CostBlockExact ==
    [][(pc = "pre_solve" /\ CostInputs \subseteq Columns(data)
          /\ PreSolveWrote(data', t))
          => \A c \in CostBlock :
                Abs(func(c, data', t).val - data'[t][c]) <= CostTol]_vars

C15_Witness ==
    /\ pc = "sweep_begin" /\ iteration = 0 /\ sweeps = <<>>
    /\ PreSolveWrote(data, t)
    /\ data[t]["PBRENT"] = Lit(15000)
    /\ data[t]["UTCOST"] > Lit(13000)
    /\ \A c \in CostBlock : Abs(func(c, data, t).val - data[t][c]) <= CostTol

\* bound, in units of 1/Scale, on the rounding of a damped blend: each of
\* its two products is rounded to half a unit
RoundTol == 1

Min2(a, b) == IF a < b THEN a ELSE b
Max2(a, b) == IF a < b THEN b ELSE a

\* C16 as stated: the value an update stores lies between the old value and
\* the computed value inclusive; it is the computed value for damping = 1 and
\* the old value for damping = 0.
C16_DampedBetween ==
    [][(pc = "equation" /\ ~EvaluationFails) =>
          LET name    == equations[eq]
              old_val == OldVal(data, t, name)
              new_val == func(name, data, t).val
          IN  /\ Min2(old_val, new_val) <= data'[t][name]
              /\ data'[t][name] <= Max2(old_val, new_val)
              /\ damping = Lit(100) => data'[t][name] = new_val
              /\ Damped(0, new_val, old_val) = old_val]_vars

\* C16 as amended: for finite old and computed values the stored value lies
\* between them to within the rounding of the two products of the blend; it
\* is exactly the computed value for damping = 1 and exactly the old value
\* for damping = 0.
C16_DampedBetweenUpToRounding ==
    [][(pc = "equation" /\ ~EvaluationFails) =>
          LET name    == equations[eq]
              old_val == OldVal(data, t, name)
              new_val == func(name, data, t).val
          IN  /\ ~IsInf(old_val)
              /\ Min2(old_val, new_val) - RoundTol <= data'[t][name]
              /\ data'[t][name] <= Max2(old_val, new_val) + RoundTol
              /\ damping = Lit(100) => data'[t][name] = new_val
              /\ Damped(0, new_val, old_val) = old_val]_vars

C16_Witness ==
    /\ pc = "convergence_check" /\ iteration = 0
    /\ damping = Lit(70)
    /\ "MGDPNSA" \in RangeOf(equations) /\ "MGDPNSA" \in Columns(data0)
    /\ t = 1
    /\ data[0]["MGDPNSA"] = Lit(10000)
    /\ data[t]["GDPMPS"] = Lit(11000)
    /\ data[t]["MGDPNSA"] = Lit(10700)

\* C17: after the first sweep of a period the stored value of an identity
\* equation whose inputs do not feed back (MGDPNSA = GDPMPS, PSNBCY = PSNBNSA)
\* is the value computed from its inputs, whatever the damping factor.
C17_IdentityExactAfterOneSweep ==
    (pc = "convergence_check" /\ iteration = 0) =>
        \A name \in {"MGDPNSA", "PSNBCY"} \cap RangeOf(equations) :
            ~EvaluationFailsFor(name) =>
                Abs(data[t][name] - func(name, data, t).val) <= RoundTol

\* the store satisfies every registered equation at tt exactly
Steady(d, tt) ==
    \A i \in 1..Len(equations) :
        LET name == equations[i]
        IN  /\ name \in Columns(d)
            /\ ~func(name, d, tt).exc
            /\ ~IsNaN(d[tt][name]) /\ ~IsInf(d[tt][name])
            /\ func(name, d, tt).val = d[tt][name]

\* C18 as stated: from a store that satisfies every registered equation at t,
\* solve_period converges within 5 sweeps and every registered variable ends
\* at t with the value it started with.
C18_SteadyStateKept ==
    (pc = "period_return" /\ t = start_period /\ Steady(data0, t)) =>
        /\ ~Warned(t) /\ iters <= 5
        /\ \A name \in RangeOf(equations) :
              Abs(data[t][name] - data0[t][name]) <= RoundTol

\* C18 as amended: from such a store solve_period converges in its first
\* sweep, and every registered variable ends at t with the value it started
\* with plus the additive adjustment the post-processor applies to it.
C18_SteadyStateKeptUpToAdjustment ==
    (pc = "period_return" /\ t = start_period /\ Steady(data0, t)) =>
        /\ ~Warned(t) /\ iters = 1 /\ iters <= 5
        /\ \A name \in RangeOf(equations) :
              Abs(data[t][name] - _apply_additive_adjustments(data0, t)[t][name])
                  <= RoundTol

C18_Witness ==
    /\ pc = "period_return" /\ t = start_period /\ t = 1
    /\ equations = get_all_equations
    /\ Steady(data0, t)
    /\ data0[t]["PRMIP_A"] = Lit(500)
    /\ data[t]["PRMIP"] = data0[t]["PRMIP"] + Lit(500)
    /\ data[t]["MGDPNSA"] > data0[t]["MGDPNSA"] + RoundTol

\* C19: a store without the run-up rows of the first solved period makes the
\* run fail: solve_range does not return normally from a non-empty range, and
\* no sweep skips an equation because a lagged row is missing.
C19_MissingHistoryIsFatal ==
    /\ (pc = "returned" /\ LoopCondition(start_period, end_period))
          => (start_period - 1) \in DOMAIN data0
    /\ \A k \in 1..Len(sweeps) : \A j \in 1..Len(sweeps[k]) :
          sweeps[k][j].skipped => (t - Lags(sweeps[k][j].name)) \in DOMAIN data

\* the targets of the additive-adjustment table
AdjustmentTargets ==
    {ADDITIVE_ADJUSTMENTS[i][1] : i \in 1..Len(ADDITIVE_ADJUSTMENTS)}

\* C20: the post-processor adds the adjustment's value at t to the target's
\* value at t exactly when both columns exist and the adjustment value at t
\* is defined; otherwise the target is unchanged; no other cell changes.
C20_PostProcessorContract ==
    [][(pc = "convergence_check" /\ pc' = "period_return") =>
          /\ Columns(data') = Columns(data)
          /\ \A i \in 1..Len(ADDITIVE_ADJUSTMENTS) :
                LET var     == ADDITIVE_ADJUSTMENTS[i][1]
                    adj_var == ADDITIVE_ADJUSTMENTS[i][2]
                IN  var \in Columns(data) =>
                        data'[t][var] =
                            IF adj_var \in Columns(data) /\ ~IsNaN(data[t][adj_var])
                            THEN FAdd(data[t][var], data[t][adj_var])
                            ELSE data[t][var]
          /\ \A p \in Periods : \A c \in Columns(data) :
                (p # t \/ c \notin AdjustmentTargets) => data'[p][c] = data[p][c]]_vars

C20_Witness ==
    /\ pc = "period_return"
    /\ damping = Lit(100)
    /\ equations = get_all_equations
    /\ "PRMIP_A" \in Columns(data) /\ "MGDPNSA" \in Columns(data0)
    /\ IsNaN(data[t]["PRMIP_A"])
    /\ ~IsNaN(data[t]["PRMIP"])
    /\ data[t]["MGDPNSA_A"] = Lit(300)
    /\ data[t]["MGDPNSA"] = data[t]["GDPMPS"] + Lit(300)

(***************************************************************************)
(* C21  Each endogenous variable is computed by exactly one registered     *)
(* equation: no target name occurs twice in get_all_equations() across the *)
(* 16 group modules, so each sweep updates each endogenous variable        *)
(* exactly once.                                                           *)
(***************************************************************************)
\* the outcomes recorded for name in a sweep
OutcomesOf(sw, name) == {j \in 1..Len(sw) : sw[j].name = name}

\* the registry of the running solver is get_all_equations(), and a sweep
\* of it has just been completed
RegistrySweepDone == equations = get_all_equations /\ pc = "convergence_check"

NoTargetTwice ==
    /\ Len(_GROUP_MODULES) = 16
    /\ Cardinality(RangeOf(all_equations)) = Len(all_equations)
    /\ Cardinality(RangeOf(get_all_equations)) = Len(get_all_equations)

\* C21 as stated: no target is registered twice, and every completed sweep
\* has updated every registered variable exactly once
C21_EachVariableUpdatedOnce ==
    /\ NoTargetTwice
    /\ RegistrySweepDone =>
          \A name \in RangeOf(equations) :
              Cardinality({j \in OutcomesOf(sweeps[Len(sweeps)], name) :
                              ~sweeps[Len(sweeps)][j].skipped}) = 1

\* C21 amended: no target is registered twice, so every completed sweep has
\* evaluated every registered equation exactly once and updated its variable
\* at most once: not at all when the evaluation failed
C21_EachEquationEvaluatedOnce ==
    /\ NoTargetTwice
    /\ RegistrySweepDone =>
          /\ Len(sweeps[Len(sweeps)]) = Len(equations)
          /\ \A name \in RangeOf(equations) :
                Cardinality(OutcomesOf(sweeps[Len(sweeps)], name)) = 1

C21_Witness ==
    /\ RegistrySweepDone
    /\ Len(all_equations) = 371
    /\ Len(sweeps) = 2
    /\ \A k \in 1..2 : \A j \in 1..Len(equations) :
          sweeps[k][j].name = equations[j] /\ ~sweeps[k][j].skipped

(***************************************************************************)
(* C22  Gauss-Seidel visibility: within one sweep the equation at registry *)
(* position j reads, for every variable at a position i < j that was       *)
(* updated in this sweep, the value written in this sweep, and for the     *)
(* variables at positions > j the value the previous sweep left.           *)
(***************************************************************************)
C22_GaussSeidelVisibility ==
    pc = "equation" =>
        LET read == ReadStore(data, t, sweep_row)[t]
        IN  \A i \in 1..Len(equations) :
                IF i < eq /\ equations[i] \in DOMAIN written
                THEN read[equations[i]] = written[equations[i]]
                ELSE read[equations[i]] = sweep_row[equations[i]]

\* UTCOST is about to be evaluated after SCOST and CCOST were moved by this
\* sweep, and its value on the live store is not its value on the row the
\* sweep began with
C22_Witness ==
    /\ pc = "equation"
    /\ equations = get_all_equations
    /\ equations[eq] = "UTCOST"
    /\ {"SCOST", "CCOST"} \subseteq DOMAIN written
    /\ written["SCOST"] # sweep_row["SCOST"]
    /\ data[t]["SCOST"] = written["SCOST"]
    /\ data[t]["UTCOST"] = sweep_row["UTCOST"]
    /\ func("UTCOST", data, t).val
          # func("UTCOST", ReadStore_Jacobi(data, t, sweep_row), t).val

(***************************************************************************)
(* C23  A variable whose old value satisfies |old| <= 1e-10 is still       *)
(* updated with the damped value but is excluded from the relative-change  *)
(* metric, so a sweep in which only such variables change has maximum      *)
(* relative change 0 and the period is declared converged.                 *)
(***************************************************************************)
\* no update of the sweep sw that counts in the metric changed its variable
OnlyUntrackedChanged(sw) ==
    \A j \in 1..Len(sw) : sw[j].skipped \/ ~sw[j].tracked \/ sw[j].rel = 0

C23_SmallOldValueUntracked ==
    [][/\ (pc = "equation" /\ ~EvaluationFails
            /\ ~FGt(FAbs(OldVal(data, t, equations[eq])), Eps)) =>
              /\ data'[t][equations[eq]] =
                    Damped(damping, func(equations[eq], data, t).val,
                           OldVal(data, t, equations[eq]))
              /\ max_change' = max_change
              /\ worst_var' = worst_var
       /\ (pc = "convergence_check"
            /\ OnlyUntrackedChanged(sweeps[Len(sweeps)])) =>
              /\ max_change = 0
              /\ pc' = "period_return"
              /\ iters' = iteration + 1
              /\ warnings' = warnings]_vars

\* PSNBCY started the sweep at 0.0 and was moved without being tracked; the
\* period converged in that sweep, with PSNBCY short of the value its
\* equation gives
C23_Witness ==
    /\ pc = "period_return"
    /\ iters = 1
    /\ ~Warned(t)
    /\ \E j \in 1..Len(sweeps[1]) :
          /\ sweeps[1][j].name = "PSNBCY"
          /\ ~sweeps[1][j].skipped
          /\ ~sweeps[1][j].tracked
    /\ OnlyUntrackedChanged(sweeps[1])
    /\ data[t]["PSNBCY"] # 0
    /\ data[t]["PSNBCY"] # data[t]["PSNBNSA"]

(***************************************************************************)
(* C24  Per-period step order: solve_period performs initialization, then  *)
(* the cost-block pre-solve exactly once, then the sweeps, then the        *)
(* post-processing; the pre-solve is never invoked again between or during *)
(* sweeps of the same period.                                              *)
(***************************************************************************)
\* the steps of a solve_period call that has run k sweeps and returned
StepsOfCall(k) ==
    <<"initialise", "pre_solve">> \o [i \in 1..k |-> "sweep"] \o <<"adjust">>

\* l is an initial part of the sequence m
IsPrefix(l, m) == Len(l) <= Len(m) /\ \A i \in 1..Len(l) : l[i] = m[i]

C24_StepOrder ==
    /\ IsPrefix(log, StepsOfCall(max_iter))
          \/ \E k \in 1..max_iter : log = StepsOfCall(k)
    /\ pc = "period_return" => log = StepsOfCall(Len(sweeps))
    /\ pc \in {"sweep_begin", "equation", "convergence_check"} =>
          Cardinality({i \in 1..Len(log) : log[i] = "pre_solve"}) = 1

C24_Witness ==
    /\ pc = "period_return"
    /\ Len(sweeps) = 3
    /\ log = <<"initialise", "pre_solve", "sweep", "sweep", "sweep", "adjust">>

(***************************************************************************)
(* C25  Termination: for a positive max_iter, solve_period always          *)
(* terminates after at least 1 and at most max_iter sweeps, each sweep     *)
(* evaluating every registered equation at most once, and solve_range      *)
(* terminates after solving end - start + 1 periods for any finite range.  *)
(***************************************************************************)
\* the steps of solve_range, and the steps of solve_period
RangeStep == SolveRangeLoop \/ SolveRangeReturn \/ RecordPeriod \/ SolveAgain

PeriodStep ==
    \/ InitialisePeriod \/ InitialiseRaises \/ PreSolve \/ SweepBegin
    \/ EquationSkip \/ EquationUpdate \/ Converged \/ NextSweep \/ NotConverged

\* The interpreter keeps executing the call: a step that can be taken is
\* eventually taken.  For the steps of solve_period weak fairness is written
\* out, WF_vars(A) being <>[]~ENABLED <<A>>_vars \/ []<><<A>>_vars: inside
\* solve_period exactly one of its steps can be taken, outside it none.
FairSpec ==
    /\ Spec
    /\ WF_vars(RangeStep)
    /\ <>[]~InSolvePeriod \/ []<><<PeriodStep>>_vars

\* the number of periods of the range start..end
RangeLength(start, end) == IF end < start THEN 0 ELSE end - start + 1

\* solve_period has returned after between 1 and max_iter sweeps, none of
\* which evaluated more equations than are registered
PeriodBudgetKept ==
    /\ max_iter > 0
    /\ Len(sweeps) <= max_iter
    /\ \A k \in 1..Len(sweeps) : Len(sweeps[k]) <= Len(equations)
    /\ pc = "period_return" => Len(sweeps) >= 1

\* solve_range has returned, having solved each period of the range once
RangeReturned ==
    /\ pc = "returned"
    /\ Len(results) = RangeLength(start_period, end_period)
    /\ \A p \in Periods :
          calls[p].solve_period
              = IF start_period <= p /\ p <= end_period THEN 1 ELSE 0

\* the call of solve_range has ended: by a return (the second solve is the
\* last one) or by the KeyError of an initialization
Terminated == pc = "key_error" \/ (pc = "returned" /\ run = 2)

AdjustedOnce == _apply_additive_adjustments(data, t)
AdjustedTwice == _apply_additive_adjustments(AdjustedOnce, t)

\* the table entries whose two columns exist and whose adjustment is defined
DefinedAdjustments ==
    {i \in 1..Len(ADDITIVE_ADJUSTMENTS) :
        /\ ADDITIVE_ADJUSTMENTS[i][1] \in Columns(data)
        /\ ADDITIVE_ADJUSTMENTS[i][2] \in Columns(data)
        /\ ~IsNaN(data[t][ADDITIVE_ADJUSTMENTS[i][2]])}

\* C26 as stated: the second application changes every target whose
\* adjustment is defined and not zero
C26_TwiceNeverEqualsOnce ==
    pc = "convergence_check" =>
        \A i \in DefinedAdjustments :
            LET var == ADDITIVE_ADJUSTMENTS[i][1]
                adj == data[t][ADDITIVE_ADJUSTMENTS[i][2]]
            IN  /\ AdjustedTwice[t][var] = FAdd(data[t][var], 2 * adj)
                /\ AdjustedTwice[t][var] = AdjustedOnce[t][var] => adj = 0

\* C26 amended: two applications add each defined adjustment twice; the
\* second changes the target exactly when the adjustment is not zero and
\* the target holds a finite value
C26_TwiceAddsTwice ==
    pc = "convergence_check" =>
        /\ \A i \in DefinedAdjustments :
              LET var == ADDITIVE_ADJUSTMENTS[i][1]
                  adj == data[t][ADDITIVE_ADJUSTMENTS[i][2]]
              IN  /\ AdjustedTwice[t][var] = FAdd(FAdd(data[t][var], adj), adj)
                  /\ AdjustedTwice[t][var] = AdjustedOnce[t][var]
                        <=> (adj = 0 \/ IsNaN(data[t][var]) \/ IsInf(data[t][var]))
        /\ \A i \in (1..Len(ADDITIVE_ADJUSTMENTS)) \ DefinedAdjustments :
              ADDITIVE_ADJUSTMENTS[i][1] \in Columns(data) =>
                  AdjustedTwice[t][ADDITIVE_ADJUSTMENTS[i][1]]
                      = data[t][ADDITIVE_ADJUSTMENTS[i][1]]

C26_Witness ==
    /\ pc = "convergence_check"
    /\ "PRMIP_A" \in Columns(data)
    /\ data[t]["PRMIP_A"] = Lit(500)
    /\ ~IsNaN(data[t]["PRMIP"])
    /\ AdjustedOnce[t]["PRMIP"] = data[t]["PRMIP"] + Lit(500)
    /\ AdjustedTwice[t]["PRMIP"] = data[t]["PRMIP"] + Lit(1000)
    /\ AdjustedTwice[t]["MGDPNSA"] = data[t]["MGDPNSA"] + Lit(600)

(***************************************************************************)
(* C27  A solver constructed with explicit max_iter, tolerance and damping *)
(* arguments uses exactly the supplied values in solve_period; the         *)
(* defaults 200, 1e-8 and 0.7 apply only when an argument is omitted,      *)
(* including for the boundary values damping = 0, tolerance = 0 and        *)
(* max_iter = 0.                                                           *)
(***************************************************************************)
C27_ExplicitArgumentsUsed ==
    InSolvePeriod =>
        /\ max_iter = IF args.max_iter = None THEN SOLVER_MAX_ITER
                      ELSE args.max_iter
        /\ tol = IF args.tolerance = None THEN SOLVER_TOLERANCE
                 ELSE args.tolerance
        /\ damping = IF args.damping = None THEN SOLVER_DAMPING
                     ELSE args.damping

(***************************************************************************)
(* C28  The pre-solver's write is all-or-nothing: in every outcome of      *)
(* _pre_solve_cost_block either all three cells SCOST, CCOST and UTCOST at *)
(* period t have been overwritten with the solution of the same linear     *)
(* system, or none of them has been changed; no failure leaves a partial   *)
(* update.                                                                 *)
(***************************************************************************)
\* position of a cost variable in the solution vector
SolutionIndex(c) == CASE c = "SCOST" -> 1 [] c = "CCOST" -> 2 [] c = "UTCOST" -> 3

C28_PreSolveAllOrNothing ==
    [][pc = "pre_solve" =>
          \/ data' = data
          \/ /\ CostInputs \cup {"SCOST"} \subseteq Columns(data)
             /\ CostBlock \subseteq Columns(data')
             /\ \A c \in CostBlock :
                   data'[t][c] = CostBlockSolution(data, t)[SolutionIndex(c)]
             /\ \A p \in Periods : \A c \in Columns(data) :
                   (p # t \/ c \notin CostBlock) => data'[p][c] = data[p][c]]_vars

\* the pre-solve has replaced the three seeded values by three other values
C28_Witness ==
    /\ pc = "sweep_begin"
    /\ sweeps = <<>>
    /\ t > 0
    /\ \A c \in CostBlock :
          /\ ~IsNaN(data[t][c])
          /\ data[t][c] # data[t - 1][c]
          /\ data[t - 1][c] = data0[t - 1][c]

(***************************************************************************)
(* C29  No lookahead through the lag accessor: the accessor used by the    *)
(* equations reads period t - lag for lag > 0 and period t for every       *)
(* lag <= 0, so no call can read a period later than the one being solved, *)
(* and evaluating an equation at t never depends on values stored at       *)
(* periods after t.                                                        *)
(***************************************************************************)
\* the store d with every cell of the periods after tt undefined
WithoutLater(d, tt) ==
    [p \in DOMAIN d |->
        IF p > tt THEN [c \in Columns(d) |-> NaN] ELSE d[p]]

\* the lags the equation bodies of the registry pass to the accessor, and 0
\* and a negative lag beside them
LagsRead == {-1, 0, 1, 2, 3, 4, 5}

C29_NoLookahead ==
    pc = "equation" =>
        /\ \A lag \in LagsRead : \A c \in Columns(data) :
              (lag > 0 => (t - lag) \in DOMAIN data) =>
                  v(data, t, c, lag) = v(WithoutLater(data, t), t, c, lag)
        /\ func(equations[eq], data, t)
              = func(equations[eq], WithoutLater(data, t), t)

(***************************************************************************)
(* C30  The iteration count returned by solve_period equals the number of  *)
(* sweeps actually executed for that period; it is always between 1 and    *)
(* max_iter, and it is strictly less than max_iter only when the period    *)
(* converged and no warning was emitted.                                   *)
(***************************************************************************)
C30_ReturnedCountIsSweeps ==
    pc = "period_return" =>
        /\ iters = Len(sweeps)
        /\ iters = Cardinality({i \in 1..Len(log) : log[i] = "sweep"})
        /\ 1 <= iters /\ iters <= max_iter
        /\ iters < max_iter => (Below(iters) /\ ~Warned(t))

\* a period returned before its budget was used, and one that used it all
\* without converging, in the same run
C30_Witness ==
    /\ pc = "period_return"
    /\ max_iter = 3
    /\ iters = 2
    /\ Len(sweeps) = 2
    /\ ~Warned(t)
    /\ t > start_period
    /\ results[Len(results)][2] = max_iter
    /\ Warned(t - 1)

====
